---- MODULE Spec2Model ----
(***************************************************************************)
(* Workstream engine (src/scripts/workstream_engine.py): the persisted     *)
(* status document, the graph functions detect_cycle / compute_depth /     *)
(* compute_phases, and the commands create, next, depends and update.      *)
(*                                                                         *)
(* A Python dict is modelled by what the code uses of it: the tickets      *)
(* mapping as a function (its iteration order is never observable in a     *)
(* result), an edge mapping ("graph") as the sequence of its items in      *)
(* insertion order, because detect_cycle walks it in that order.           *)
(***************************************************************************)
EXTENDS Integers, Sequences, FiniteSets, TLC

\* ---------------------------------------------------------------- bounds
MaxBatch == 2
MaxDeps == 1
MaxCreates == 2
MaxCmds == 3

\* ------------------------------------------------------------ vocabulary
Ids == {"A", "B", "C"}
\* lexicographic order of the identifiers (Python str comparison)
IdRank == [i \in Ids \cup {"D"} |->
             CASE i = "A" -> 1 [] i = "B" -> 2 [] i = "C" -> 3 [] OTHER -> 4]
NoTicket == "none"

VALID_STATUSES == {"pending", "in_progress", "done", "blocked"}
PRIORITY_ORDER == [p \in {"critical", "high", "medium", "low"} |->
                     CASE p = "critical" -> 0 [] p = "high" -> 1
                       [] p = "medium" -> 2 [] OTHER -> 3]

\* the summary is payload: no command reads it
Summaries == {"s1"}
InputStatuses == VALID_STATUSES \cup {"bogus"}

\* str(k) for the phase numbers the model can reach
Str(k) == CASE k = 1 -> "1" [] k = 2 -> "2" [] k = 3 -> "3" [] k = 4 -> "4"
            [] OTHER -> "n"

\* --------------------------------------------------------------- helpers
Range(s) == {s[i] : i \in DOMAIN s}

RECURSIVE SortIds(_)
\* sorted(v) for a list of distinct identifiers
SortIds(S) ==
    IF S = {} THEN << >>
    ELSE LET m == CHOOSE x \in S : \A y \in S : IdRank[x] <= IdRank[y]
         IN  <<m>> \o SortIds(S \ {m})

\* -------------------------------------------------- edge mappings (dict)
\* a graph is a sequence of items [id, deps] with distinct ids
Keys(graph) == {graph[i].id : i \in DOMAIN graph}
Get(graph, n) ==
    IF n \in Keys(graph)
    THEN (graph[CHOOSE i \in DOMAIN graph : graph[i].id = n]).deps
    ELSE << >>
\* graph[n] = deps: an existing key keeps its position, a new key goes last
Put(graph, n, deps) ==
    IF n \in Keys(graph)
    THEN [i \in DOMAIN graph |->
            IF graph[i].id = n THEN [id |-> n, deps |-> deps] ELSE graph[i]]
    ELSE Append(graph, [id |-> n, deps |-> deps])

\* ----------------------------------------------------------- detect_cycle
WHITE == 0
GRAY == 1
BLACK == 2
NoParent == "None"
\* None, and the only falsy value detect_cycle can return
None == << >>

\* the while loop that walks the parent pointers from node back to dep
RECURSIVE CycleWalk(_, _, _, _)
CycleWalk(cycle, cur, dep, parent) ==
    IF cur = dep THEN cycle
    ELSE LET nxt == parent[cur]
         IN  IF nxt = NoParent THEN cycle
             ELSE CycleWalk(Append(cycle, nxt), nxt, dep, parent)

Reverse(s) == [i \in 1..Len(s) |-> s[Len(s) + 1 - i]]

RECURSIVE dfs(_, _, _)
RECURSIVE dfsDeps(_, _, _, _)
\* st = [color, parent, result]; result # None ends the traversal
dfs(graph, node, st) ==
    dfsDeps(graph, node, 1, [st EXCEPT !.color[node] = GRAY])

dfsDeps(graph, node, i, st) ==
    LET deps == Get(graph, node)
    IN  IF i > Len(deps)
        THEN [st EXCEPT !.color[node] = BLACK]
        ELSE LET dep == deps[i]
             IN  IF dep \notin DOMAIN st.color
                 THEN dfsDeps(graph, node, i + 1, st)
                 ELSE IF st.color[dep] = GRAY
                 THEN [st EXCEPT !.result =
                         Reverse(CycleWalk(<<dep, node>>, node, dep, st.parent))]
                 ELSE IF st.color[dep] = WHITE
                 THEN LET r == dfs(graph, dep, [st EXCEPT !.parent[dep] = node])
                      IN  IF r.result # None THEN r
                          ELSE dfsDeps(graph, node, i + 1, r)
                 ELSE dfsDeps(graph, node, i + 1, st)

\* mutant: the traversal starts from the first key only
dfsRoots_firstOnly(graph, i, st) ==
    IF i > Len(graph) THEN st
    ELSE IF st.color[graph[i].id] = WHITE
    THEN dfs(graph, graph[i].id, st)
    ELSE st

RECURSIVE dfsRoots(_, _, _)
dfsRoots(graph, i, st) ==
    IF i > Len(graph) THEN st
    ELSE IF st.color[graph[i].id] = WHITE
    THEN LET r == dfs(graph, graph[i].id, st)
         IN  IF r.result # None THEN r ELSE dfsRoots(graph, i + 1, r)
    ELSE dfsRoots(graph, i + 1, st)

\* mutant: no cycle is ever reported
detect_cycle_blind(graph) == None

detect_cycle(graph) ==
    dfsRoots(graph, 1, [color  |-> [n \in Keys(graph) |-> WHITE],
                        parent |-> [n \in Keys(graph) |-> NoParent],
                        result |-> None]).result

\* ---------------------------------------------------------- compute_depth
\* what compute_depth yields when get never returns: get(node) calls itself
\* on a node whose own call has not stored depth[node] yet, the recursion
\* has no end, and Python stops it with an uncaught RecursionError
RecursionError == [RecursionError |-> TRUE]

RECURSIVE get(_, _, _, _)
RECURSIVE getMax(_, _, _, _, _, _)
\* get(node) with the memo table depth threaded through: [depth, value,
\* raised]; stack = the nodes whose call of get is still running
get(graph, node, depth, stack) ==
    IF node \in DOMAIN depth
    THEN [depth |-> depth, value |-> depth[node], raised |-> FALSE]
    ELSE IF node \in stack
    THEN [depth |-> depth, value |-> 0, raised |-> TRUE]
    ELSE LET deps == SelectSeq(Get(graph, node), LAMBDA d : d \in Keys(graph))
         IN  IF deps = << >>
             THEN [depth |-> (node :> 0) @@ depth, value |-> 0, raised |-> FALSE]
             ELSE LET r == getMax(graph, deps, 1, depth, 0, stack \cup {node})
                  IN  IF r.raised THEN r
                      ELSE [depth |-> (node :> (1 + r.value)) @@ r.depth,
                            value |-> 1 + r.value, raised |-> FALSE]

RECURSIVE getMax_last(_, _, _, _, _, _)
\* mutant: the depth of the last dependency instead of the largest
getMax_last(graph, deps, i, depth, best, stack) ==
    IF i > Len(deps) THEN [depth |-> depth, value |-> best, raised |-> FALSE]
    ELSE LET r == get(graph, deps[i], depth, stack)
         IN  IF r.raised THEN r
             ELSE getMax_last(graph, deps, i + 1, r.depth, r.value, stack)

\* max(get(d) for d in deps), left to right
getMax(graph, deps, i, depth, best, stack) ==
    IF i > Len(deps) THEN [depth |-> depth, value |-> best, raised |-> FALSE]
    ELSE LET r == get(graph, deps[i], depth, stack)
         IN  IF r.raised THEN r
             ELSE getMax(graph, deps, i + 1, r.depth,
                         IF r.value > best THEN r.value ELSE best, stack)

RECURSIVE depthAll(_, _, _)
\* for node in graph: get(node); the result is [depth, raised]
depthAll(graph, i, depth) ==
    IF i > Len(graph) THEN [depth |-> depth, raised |-> FALSE]
    ELSE LET r == get(graph, graph[i].id, depth, {})
         IN  IF r.raised THEN [depth |-> depth, raised |-> TRUE]
             ELSE depthAll(graph, i + 1, r.depth)

\* {node: depth} for every key of the graph
compute_depth(graph) ==
    LET r == depthAll(graph, 1, << >>)
    IN  IF r.raised THEN RecursionError ELSE r.depth

\* --------------------------------------------------------- compute_phases
RECURSIVE phaseItems_descending(_, _)
\* mutant: the phases are produced from the deepest to the first
phaseItems_descending(depths, ks) ==
    IF ks = {} THEN << >>
    ELSE LET k == CHOOSE x \in ks : \A y \in ks : x >= y
         IN  <<[key |-> Str(k + 1),
                ids |-> SortIds({t \in DOMAIN depths : depths[t] = k})]>>
             \o phaseItems_descending(depths, ks \ {k})

RECURSIVE phaseItems(_, _)
\* the items of {str(k + 1): sorted(v)} for the depths ks, ascending
phaseItems(depths, ks) ==
    IF ks = {} THEN << >>
    ELSE LET k == CHOOSE x \in ks : \A y \in ks : x <= y
         IN  <<[key |-> Str(k + 1),
                ids |-> SortIds({t \in DOMAIN depths : depths[t] = k})]>>
             \o phaseItems(depths, ks \ {k})

\* the RecursionError of compute_depth leaving compute_phases, in the shape
\* of its result
PhasesRecursionError == <<[key |-> "RecursionError", ids |-> << >>]>>

compute_phases(graph) ==
    LET depths == compute_depth(graph)
    IN  IF depths = RecursionError THEN PhasesRecursionError
        ELSE phaseItems(depths, {depths[t] : t \in DOMAIN depths})

\* ------------------------------------------------------------ the document
\* a ticket record; the auxiliary fields (area, workstream, plan_status,
\* build_status, pr_number, pr_status, retry_count) are written once with
\* constants and never read by the commands, so they are left out
Ticket(summary, priority, blocked_by, blocks) ==
    [summary |-> summary, priority |-> priority, status |-> "pending",
     phase |-> 1, depth |-> 0, blocked_by |-> blocked_by, blocks |-> blocks]

\* the document's fields the commands read back: tickets, phases and
\* dependency_graph (version, created, project, workstreams and
\* critical_path are written and never read by create, next, depends, update)
\* what load_status returns when the file does not exist
EmptyData == [tickets |-> << >>, phases |-> << >>, dependency_graph |-> << >>]
NoFile == [exists |-> FALSE, data |-> EmptyData]

\* file: the canonical status.json, [exists, data]
load_status(file) == IF file.exists THEN file.data ELSE EmptyData
\* the document after the temporary file has been renamed onto it
save_status(data) == [exists |-> TRUE, data |-> data]

\* ------------------------------------------------------------ cmd_create
\* for tid, deps in graph.items(): for dep in deps: the pairs in loop order
RECURSIVE EdgeList(_, _)
EdgeList(graph, i) ==
    IF i > Len(graph) THEN << >>
    ELSE [j \in DOMAIN graph[i].deps |-> <<graph[i].id, graph[i].deps[j]>>]
         \o EdgeList(graph, i + 1)

RECURSIVE addBlocks(_, _, _)
\* the reverse-dependency loop of cmd_create over the edge list
addBlocks(tickets, edges, i) ==
    IF i > Len(edges) THEN tickets
    ELSE LET tid == edges[i][1]
             dep == edges[i][2]
         IN  IF dep \in DOMAIN tickets /\ tid \notin Range(tickets[dep].blocks)
             THEN addBlocks([tickets EXCEPT ![dep].blocks = Append(@, tid)],
                            edges, i + 1)
             ELSE addBlocks(tickets, edges, i + 1)

\* mutant: the depth is written back and the phase is forgotten
setDepths_depthOnly(tickets, depths) ==
    [t \in DOMAIN tickets |->
        IF t \in DOMAIN depths
        THEN [tickets[t] EXCEPT !.depth = depths[t]]
        ELSE tickets[t]]

\* depth and phase written back for every key of depths that is a ticket
setDepths(tickets, depths) ==
    [t \in DOMAIN tickets |->
        IF t \in DOMAIN depths
        THEN [tickets[t] EXCEPT !.depth = depths[t], !.phase = depths[t] + 1]
        ELSE tickets[t]]

\* the graph cmd_create builds: one item per stub of the batch
batchGraph(tickets) ==
    [i \in DOMAIN tickets |-> [id |-> tickets[i].id, deps |-> tickets[i].blocked_by]]

\* data["tickets"] after the registration loop: every stub's record is
\* assigned under its id
batchMerge(old, tickets) ==
    LET ids == {tickets[i].id : i \in DOMAIN tickets}
        stub(t) == tickets[CHOOSE i \in DOMAIN tickets : tickets[i].id = t]
    IN  [t \in (DOMAIN old) \cup ids |->
            IF t \in ids
            THEN Ticket(stub(t).summary, stub(t).priority, stub(t).blocked_by, << >>)
            ELSE old[t]]

\* mutant: the merged tickets are persisted before the cycle is reported
createOnCycle_saves(file, data) == save_status(data)

\* what cmd_create leaves on disk when detect_cycle reports a cycle
createOnCycle(file, data) == file

\* source = [is_file, tickets]: the path and what parse_source_file returns
cmd_create(file, source) ==
    IF ~source.is_file THEN [exit |-> 2, file |-> file]
    ELSE LET tickets == source.tickets
             ids == [i \in DOMAIN tickets |-> tickets[i].id]
             dupes == {ids[i] : i \in {j \in DOMAIN ids :
                          Cardinality({k \in DOMAIN ids : ids[k] = ids[j]}) > 1}}
         IN  IF tickets = << >> THEN [exit |-> 2, file |-> file]
             ELSE IF dupes # {} THEN [exit |-> 2, file |-> file]
             ELSE LET data == load_status(file)
                      graph == batchGraph(tickets)
                      merged == batchMerge(data.tickets, tickets)
                      cycle == detect_cycle(graph)
                  IN  IF cycle # None
                      THEN [exit |-> 2,
                            file |-> createOnCycle(file, [data EXCEPT !.tickets = merged])]
                      ELSE IF compute_depth(graph) = RecursionError
                      THEN [exit |-> 1, file |-> file]
                      ELSE [exit |-> 0,
                            file |-> save_status(
                              [tickets |-> setDepths(addBlocks(merged, EdgeList(graph, 1), 1),
                                                     compute_depth(graph)),
                               dependency_graph |-> graph,
                               phases |-> compute_phases(graph)])]

\* -------------------------------------------------------------- cmd_next
\* mutant: a dependency that is not tracked counts as resolved
allDone_ignoresUntracked(tickets, info) ==
    \A d \in Range(info.blocked_by) : d \notin DOMAIN tickets \/ tickets[d].status = "done"

\* all(tickets.get(d, {}).get("status") == "done" for d in blocked_by)
allDone(tickets, info) ==
    \A d \in Range(info.blocked_by) : d \in DOMAIN tickets /\ tickets[d].status = "done"

\* mutant: every pending ticket is a candidate
candidates_anyPending(tickets) ==
    {t \in DOMAIN tickets : tickets[t].status = "pending"}

candidates(tickets) ==
    {t \in DOMAIN tickets : tickets[t].status = "pending" /\ allDone(tickets, tickets[t])}

\* mutant: the phase is compared before the priority
sortKey_phaseFirst(tickets, t) ==
    <<tickets[t].phase, PRIORITY_ORDER[tickets[t].priority], IdRank[t]>>

\* the sort key of a candidate
sortKey(tickets, t) ==
    <<PRIORITY_ORDER[tickets[t].priority], tickets[t].phase, IdRank[t]>>

\* tuple comparison k1 <= k2
KeyLeq(k1, k2) ==
    \/ k1[1] < k2[1]
    \/ k1[1] = k2[1] /\ k1[2] < k2[2]
    \/ k1[1] = k2[1] /\ k1[2] = k2[2] /\ k1[3] <= k2[3]

\* candidates[0] after candidates.sort(key=...)
firstCandidate(tickets, cands) ==
    CHOOSE t \in cands : \A u \in cands : KeyLeq(sortKey(tickets, t), sortKey(tickets, u))

\* mutant: next writes back what it loaded
nextFile_saves(file) == save_status(load_status(file))

\* what cmd_next leaves on disk
nextFile(file) == file

cmd_next(file) ==
    IF ~file.exists THEN [exit |-> 1, ticket |-> NoTicket, file |-> nextFile(file)]
    ELSE LET tickets == load_status(file).tickets
             cands == candidates(tickets)
         IN  IF DOMAIN tickets = {} \/ cands = {}
             THEN [exit |-> 1, ticket |-> NoTicket, file |-> nextFile(file)]
             ELSE [exit |-> 0, ticket |-> firstCandidate(tickets, cands),
                   file |-> nextFile(file)]

\* ----------------------------------------------------------- cmd_depends
\* mutant: the edge is never found, so it is appended again
edgeExists_never(blocked_by, depends_on_id) == FALSE

\* depends_on_id in blocked_by
edgeExists(blocked_by, depends_on_id) == depends_on_id \in Range(blocked_by)

\* mutant: the new edge enters the graph after the cycle check and the
\* depth computation instead of before them
cmd_depends_lateInsert(file, ticket_id, depends_on_id) ==
    IF ~file.exists THEN [exit |-> 2, file |-> file]
    ELSE LET data == load_status(file)
             tickets == data.tickets
         IN  IF ticket_id \notin DOMAIN tickets \/ depends_on_id \notin DOMAIN tickets
             THEN [exit |-> 2, file |-> file]
             ELSE IF ticket_id = depends_on_id THEN [exit |-> 2, file |-> file]
             ELSE IF edgeExists(tickets[ticket_id].blocked_by, depends_on_id)
             THEN [exit |-> 0, file |-> file]
             ELSE LET blocked_by == Append(tickets[ticket_id].blocked_by, depends_on_id)
                      blocks == IF ticket_id \in Range(tickets[depends_on_id].blocks)
                                THEN tickets[depends_on_id].blocks
                                ELSE Append(tickets[depends_on_id].blocks, ticket_id)
                      tickets1 == [tickets EXCEPT ![ticket_id].blocked_by = blocked_by,
                                                  ![depends_on_id].blocks = blocks]
                      graph == data.dependency_graph
                      cycle == detect_cycle(graph)
                  IN  IF cycle # None THEN [exit |-> 2, file |-> file]
                      ELSE IF compute_depth(graph) = RecursionError
                      THEN [exit |-> 1, file |-> file]
                      ELSE [exit |-> 0,
                            file |-> save_status(
                              [tickets |-> setDepths(tickets1, compute_depth(graph)),
                               dependency_graph |-> Put(graph, ticket_id, blocked_by),
                               phases |-> compute_phases(graph)])]

cmd_depends(file, ticket_id, depends_on_id) ==
    IF ~file.exists THEN [exit |-> 2, file |-> file]
    ELSE LET data == load_status(file)
             tickets == data.tickets
         IN  IF ticket_id \notin DOMAIN tickets \/ depends_on_id \notin DOMAIN tickets
             THEN [exit |-> 2, file |-> file]
             ELSE IF ticket_id = depends_on_id THEN [exit |-> 2, file |-> file]
             ELSE IF edgeExists(tickets[ticket_id].blocked_by, depends_on_id)
             THEN [exit |-> 0, file |-> file]
             ELSE LET blocked_by == Append(tickets[ticket_id].blocked_by, depends_on_id)
                      blocks == IF ticket_id \in Range(tickets[depends_on_id].blocks)
                                THEN tickets[depends_on_id].blocks
                                ELSE Append(tickets[depends_on_id].blocks, ticket_id)
                      tickets1 == [tickets EXCEPT ![ticket_id].blocked_by = blocked_by,
                                                  ![depends_on_id].blocks = blocks]
                      graph == Put(data.dependency_graph, ticket_id, blocked_by)
                      cycle == detect_cycle(graph)
                  IN  IF cycle # None THEN [exit |-> 2, file |-> file]
                      ELSE IF compute_depth(graph) = RecursionError
                      THEN [exit |-> 1, file |-> file]
                      ELSE [exit |-> 0,
                            file |-> save_status(
                              [tickets |-> setDepths(tickets1, compute_depth(graph)),
                               dependency_graph |-> graph,
                               phases |-> compute_phases(graph)])]

\* ------------------------------------------------------------ cmd_update
\* mutant: a ticket that is done cannot go back to pending
cmd_update_noReopen(file, ticket_id, status) ==
    IF status \notin VALID_STATUSES THEN [exit |-> 2, file |-> file]
    ELSE IF ~file.exists THEN [exit |-> 2, file |-> file]
    ELSE LET data == load_status(file)
         IN  IF ticket_id \notin DOMAIN data.tickets THEN [exit |-> 2, file |-> file]
             ELSE IF data.tickets[ticket_id].status = "done" /\ status = "pending"
             THEN [exit |-> 2, file |-> file]
             ELSE [exit |-> 0,
                   file |-> save_status(
                     [data EXCEPT !.tickets[ticket_id].status = status])]

\* mutant: the status is not validated
cmd_update_anyStatus(file, ticket_id, status) ==
    IF ~file.exists THEN [exit |-> 2, file |-> file]
    ELSE LET data == load_status(file)
         IN  IF ticket_id \notin DOMAIN data.tickets THEN [exit |-> 2, file |-> file]
             ELSE [exit |-> 0,
                   file |-> save_status(
                     [data EXCEPT !.tickets[ticket_id].status = status])]

\* mutant: a ticket set to done is taken out of the blocked_by lists
cmd_update_unblocks(file, ticket_id, status) ==
    IF status \notin VALID_STATUSES THEN [exit |-> 2, file |-> file]
    ELSE IF ~file.exists THEN [exit |-> 2, file |-> file]
    ELSE LET data == load_status(file)
         IN  IF ticket_id \notin DOMAIN data.tickets THEN [exit |-> 2, file |-> file]
             ELSE [exit |-> 0,
                   file |-> save_status(
                     [data EXCEPT !.tickets =
                        [t \in DOMAIN data.tickets |->
                           IF t = ticket_id
                           THEN [data.tickets[t] EXCEPT !.status = status]
                           ELSE IF status = "done"
                           THEN [data.tickets[t] EXCEPT !.blocked_by =
                                   SelectSeq(@, LAMBDA d : d # ticket_id)]
                           ELSE data.tickets[t]]])]

cmd_update(file, ticket_id, status) ==
    IF status \notin VALID_STATUSES THEN [exit |-> 2, file |-> file]
    ELSE IF ~file.exists THEN [exit |-> 2, file |-> file]
    ELSE LET data == load_status(file)
         IN  IF ticket_id \notin DOMAIN data.tickets THEN [exit |-> 2, file |-> file]
             ELSE [exit |-> 0,
                   file |-> save_status(
                     [data EXCEPT !.tickets[ticket_id].status = status])]

\* ----------------------------------------------------------------- inputs
DepLists ==
    {s \in UNION {[1..n -> Ids] : n \in 0..MaxDeps} :
        \A i, j \in DOMAIN s : i # j => s[i] # s[j]}

\* the stubs parse_source_file can produce over a set of priorities
StubsOf(priorities) ==
    {[id |-> i, summary |-> s, priority |-> p, blocked_by |-> b] :
        i \in Ids, s \in Summaries, p \in priorities, b \in DepLists}

\* what the parser can hand over, up to the order of the headings: stubs in
\* ascending identifier order, or the same stub repeated (a duplicate id)
BatchesOf(stubs, size) ==
    {b \in UNION {[1..n -> stubs] : n \in 0..size} :
        \A i, j \in DOMAIN b :
            i < j => (IdRank[b[i].id] < IdRank[b[j].id] \/ b[i] = b[j])}

SourcesOf(batches) ==
    {[is_file |-> FALSE, tickets |-> << >>]} \cup
    {[is_file |-> TRUE, tickets |-> b] : b \in batches}

\* "medium" is the priority the parser gives a stub that states none
Sources == SourcesOf(BatchesOf(StubsOf({"medium"}), MaxBatch))

\* batches that can name every identifier, with every priority
PrioSources == SourcesOf(BatchesOf(StubsOf(DOMAIN PRIORITY_ORDER), MaxBatch + 1))

\* ------------------------------------------- inputs of the graph functions
\* the longest dependency list of an edge mapping
MaxEdges == 2

\* dependency lists: any identifiers, repeated or not, the key itself or not
EdgeLists(ids) == UNION {[1..n -> ids] : n \in 0..MaxEdges}

\* the keys of a dict in insertion order: distinct identifiers
KeyOrders(ids) ==
    {ks \in UNION {[1..n -> ids] : n \in 0..Cardinality(ids)} :
        \A i, j \in DOMAIN ks : i # j => ks[i] # ks[j]}

\* every dict[str, list[str]] over the identifiers ids; an identifier that
\* is not a key is a dependency outside the mapping
Mappings(ids) ==
    UNION {{[i \in DOMAIN ks |-> [id |-> ks[i], deps |-> f[i]]] :
               f \in [DOMAIN ks -> EdgeLists(ids)]} : ks \in KeyOrders(ids)}

\* ------------------------------------------------------ the files on disk
\* commands started by the processes of the step-by-step specifications
MaxRuns == 3

STATUS_FILE == "status.json"

\* mutant: the document is written in place, under its own name
tmp_inPlace == STATUS_FILE

\* tmp = STATUS_FILE.with_suffix(".tmp"): the same path for every process
tmp == "status.tmp"

Paths == {STATUS_FILE, tmp}
Procs == {"p1", "p2"}

\* what a path holds: nothing, a file just truncated, part of a text, or
\* one whole json text; by = the processes that wrote since the truncation
Absent == [kind |-> "absent", data |-> EmptyData, by |-> {}]
Truncated == [kind |-> "empty", data |-> EmptyData, by |-> {}]
Partial(by) == [kind |-> "partial", data |-> EmptyData, by |-> by]
Whole(data, by) == [kind |-> "whole", data |-> data, by |-> by]

\* Path.exists
exists(d, path) == d[path].kind # "absent"

\* json.loads(STATUS_FILE.read_text()) succeeds on one whole text only
parses(d, path) == d[path].kind = "whole"

\* what load_status and the exists() tests of the commands see of the disk
view(d) == IF exists(d, STATUS_FILE) THEN save_status(d[STATUS_FILE].data) ELSE NoFile

\* open(path, "w") of Path.write_text: creates the file or truncates it
open_w(d, path) == [d EXCEPT ![path] = Truncated]

\* Path.rename: dst names the file src named, and src names nothing
rename(d, src, dst) ==
    IF src = dst THEN d ELSE [d EXCEPT ![dst] = d[src], ![src] = Absent]

\* where an open file is after a rename: it follows its file, and the file
\* dst named before has no name any more
fdAfterRename(fd, src, dst) ==
    IF src = dst THEN fd
    ELSE IF fd = src THEN dst
    ELSE IF fd = dst THEN "unlinked"
    ELSE fd

\* a process that runs no command
Idle ==
    [pc |-> "idle", data |-> EmptyData, prev |-> Absent, fd |-> "closed",
     exit |-> 0, err |-> "none"]

\* ------------------------------------------------------------------ state
VARIABLES
    status_file,   \* .claude/workstreams/status.json: [exists, data]
    last,          \* the last command run: [cmd, exit, ticket]
    used,          \* commands that changed the document so far: [create, cmds]
    disk,          \* step-by-step specifications: what each path holds
    procs,         \* each process: [pc, data, prev, fd, exit, err]
    runs,          \* commands started by the processes so far
    mapping,       \* graph-function specification: the edge mapping passed
    result         \* and the last call made on it: [fn, value]

vars == <<status_file, last, used, disk, procs, runs, mapping, result>>
cmdVars == <<status_file, last, used>>
procVars == <<disk, procs, runs>>
pureVars == <<mapping, result>>

\* no graph function called yet
NoResult == [fn |-> "none", value |-> << >>]

Init ==
    /\ status_file = NoFile
    /\ last = [cmd |-> "none", exit |-> 0, ticket |-> NoTicket]
    /\ used = [create |-> 0, cmds |-> 0]
    /\ disk = [path \in Paths |-> Absent]
    /\ procs = [p \in Procs |-> Idle]
    /\ runs = 0
    /\ mapping = << >>
    /\ result = NoResult

Count(cmd, r) ==
    IF r.file = status_file THEN used
    ELSE [create |-> used.create + (IF cmd = "create" THEN 1 ELSE 0),
          cmds |-> used.cmds + 1]

Create(source) ==
    LET r == cmd_create(status_file, source)
    IN  /\ status_file' = r.file
        /\ last' = [cmd |-> "create", exit |-> r.exit, ticket |-> NoTicket]
        /\ used' = Count("create", r)
        /\ UNCHANGED <<procVars, pureVars>>

NextTicket ==
    LET r == cmd_next(status_file)
    IN  /\ status_file' = r.file
        /\ last' = [cmd |-> "next", exit |-> r.exit, ticket |-> r.ticket]
        /\ used' = Count("next", r)
        /\ UNCHANGED <<procVars, pureVars>>

Depends(ticket_id, depends_on_id) ==
    LET r == cmd_depends(status_file, ticket_id, depends_on_id)
    IN  /\ status_file' = r.file
        /\ last' = [cmd |-> "depends", exit |-> r.exit, ticket |-> NoTicket]
        /\ used' = Count("depends", r)
        /\ UNCHANGED <<procVars, pureVars>>

Update(ticket_id, status) ==
    LET r == cmd_update(status_file, ticket_id, status)
    IN  /\ status_file' = r.file
        /\ last' = [cmd |-> "update", exit |-> r.exit, ticket |-> NoTicket]
        /\ used' = Count("update", r)
        /\ UNCHANGED <<procVars, pureVars>>

Next ==
    \/ /\ used.create < MaxCreates /\ used.cmds < MaxCmds
       /\ \E source \in Sources : Create(source)
    \/ NextTicket
    \/ /\ used.cmds < MaxCmds
       /\ \E t \in Ids, d \in Ids : Depends(t, d)
    \/ /\ used.cmds < MaxCmds
       /\ \E t \in Ids, s \in InputStatuses : Update(t, s)

Spec == Init /\ [][Next]_vars

\* one registration with mixed priorities, then next and update
NextPrio ==
    \/ /\ used.create = 0
       /\ \E source \in PrioSources : Create(source)
    \/ NextTicket
    \/ /\ used.cmds < MaxCmds
       /\ \E t \in Ids, s \in InputStatuses : Update(t, s)

SpecPrio == Init /\ [][NextPrio]_vars

\* create and depends commands first, then the driver loop: next, and
\* update <returned ticket> done, until next returns no ticket
Setup == last.cmd \in {"none", "create", "depends"}

\* the snapshots the loop is started from: every ticket is pending (no
\* update has run) and every blocked_by identifier is tracked
LoopReady ==
    /\ status_file.exists
    /\ \A t \in DOMAIN status_file.data.tickets :
          /\ status_file.data.tickets[t].status = "pending"
          /\ Range(status_file.data.tickets[t].blocked_by)
                \subseteq DOMAIN status_file.data.tickets

NextDriver ==
    \/ /\ Setup
       /\ used.create < MaxCreates /\ used.cmds < MaxCmds
       /\ \E source \in Sources : Create(source)
    \/ /\ Setup
       /\ used.cmds < MaxCmds
       /\ \E t \in Ids, d \in Ids : Depends(t, d)
    \/ /\ (Setup /\ LoopReady) \/ last.cmd = "update"
       /\ NextTicket
    \/ /\ last.cmd = "next" /\ last.exit = 0
       /\ Update(last.ticket, "done")

SpecDriver == Init /\ [][NextDriver]_vars

\* one registration of four tickets, then depends: graphs wide enough for
\* a diamond (a ticket reached from another over two paths)
DiamondIds == Ids \cup {"D"}

DiamondDepLists(ids) ==
    {s \in UNION {[1..n -> ids] : n \in 0..MaxDeps} :
        \A i, j \in DOMAIN s : i # j => s[i] # s[j]}

\* the files that register every identifier of ids, in ascending order
DiamondSources(ids) ==
    {[is_file |-> TRUE,
      tickets |-> [i \in 1..Cardinality(ids) |->
          [id |-> SortIds(ids)[i], summary |-> "s1", priority |-> "medium",
           blocked_by |-> deps[i]]]] :
        deps \in [1..Cardinality(ids) -> DiamondDepLists(ids)]}

NextDiamond ==
    \/ /\ used.create = 0
       /\ \E source \in DiamondSources(DiamondIds) : Create(source)
    \/ /\ used.cmds < MaxCmds
       /\ \E t \in DiamondIds, d \in DiamondIds : Depends(t, d)

SpecDiamond == Init /\ [][NextDiamond]_vars

\* ------------------------------------------ the graph functions, called
InitPure ==
    /\ status_file = NoFile
    /\ last = [cmd |-> "none", exit |-> 0, ticket |-> NoTicket]
    /\ used = [create |-> 0, cmds |-> 0]
    /\ disk = [path \in Paths |-> Absent]
    /\ procs = [p \in Procs |-> Idle]
    /\ runs = 0
    /\ mapping \in Mappings(Ids)
    /\ result = NoResult

DetectCycle ==
    /\ result' = [fn |-> "detect_cycle", value |-> detect_cycle(mapping)]
    /\ UNCHANGED <<mapping, cmdVars, procVars>>

ComputeDepth ==
    /\ result' = [fn |-> "compute_depth", value |-> compute_depth(mapping)]
    /\ UNCHANGED <<mapping, cmdVars, procVars>>

ComputePhases ==
    /\ result' = [fn |-> "compute_phases", value |-> compute_phases(mapping)]
    /\ UNCHANGED <<mapping, cmdVars, procVars>>

NextPure == DetectCycle \/ ComputeDepth \/ ComputePhases

SpecPure == InitPure /\ [][NextPure]_vars

\* --------------------------------------- the commands, one step at a time
\* what the processes are asked to run
ProcIds == {"A", "B"}
ProcStatuses == {"in_progress", "done"}
ProcSources ==
    {s \in Sources :
        /\ s.is_file
        /\ Len(s.tickets) = 1
        /\ s.tickets[1].id \in ProcIds
        /\ s.tickets[1].blocked_by = << >>}

\* a command from its start to the point where it exits or is about to
\* call save_status: r is what the command computes from the document it
\* loads, saving tells whether it goes on to save_status
Begin(p, r, saving) ==
    /\ runs < MaxRuns
    /\ procs[p].pc \in {"idle", "done", "crashed"}
    /\ runs' = runs + 1
    /\ procs' = [procs EXCEPT ![p] =
          IF exists(disk, STATUS_FILE) /\ ~parses(disk, STATUS_FILE)
          THEN [Idle EXCEPT !.pc = "crashed", !.exit = 1, !.err = "JSONDecodeError",
                            !.prev = disk[STATUS_FILE]]
          ELSE IF saving
          THEN [Idle EXCEPT !.pc = "open", !.data = r.file.data,
                            !.prev = disk[STATUS_FILE]]
          ELSE [Idle EXCEPT !.pc = "done", !.exit = r.exit,
                            !.prev = disk[STATUS_FILE]]]
    /\ UNCHANGED <<disk, cmdVars, pureVars>>

RunCreate(p, source) ==
    LET r == cmd_create(view(disk), source)
    IN  Begin(p, r, r.exit = 0)

RunNext(p) ==
    LET r == cmd_next(view(disk))
    IN  Begin(p, [exit |-> r.exit, file |-> r.file], FALSE)

RunDepends(p, ticket_id, depends_on_id) ==
    LET r == cmd_depends(view(disk), ticket_id, depends_on_id)
    IN  Begin(p, r, r.exit = 0 /\ r.file # view(disk))

RunUpdate(p, ticket_id, status) ==
    LET r == cmd_update(view(disk), ticket_id, status)
    IN  Begin(p, r, r.exit = 0)

\* save_status, line 46: tmp.write_text opens tmp for writing
Open(p) ==
    /\ procs[p].pc = "open"
    /\ disk' = open_w(disk, tmp)
    /\ procs' = [procs EXCEPT ![p].pc = "write", ![p].fd = tmp]
    /\ UNCHANGED <<runs, cmdVars, pureVars>>

\* tmp.write_text: the first part of the text reaches the open file
WriteChunk(p) ==
    /\ procs[p].pc = "write"
    /\ disk' = IF procs[p].fd \in Paths
               THEN [disk EXCEPT ![procs[p].fd] = Partial(@.by \cup {p})]
               ELSE disk
    /\ procs' = [procs EXCEPT ![p].pc = "close"]
    /\ UNCHANGED <<runs, cmdVars, pureVars>>

\* tmp.write_text: the rest of the text reaches the open file, which is
\* closed. The text is whole if nobody else touched the file; after a
\* truncation by another process it has a hole; overlaid on the text of
\* another process it is whole or not, depending on the lengths
Close(p) ==
    /\ procs[p].pc = "close"
    /\ \/ procs[p].fd \notin Paths /\ disk' = disk
       \/ /\ procs[p].fd \in Paths
          /\ LET by == disk[procs[p].fd].by
             IN  \/ /\ p \in by
                    /\ disk' = [disk EXCEPT ![procs[p].fd] =
                                   Whole(procs[p].data, by)]
                 \/ /\ by # {p}
                    /\ disk' = [disk EXCEPT ![procs[p].fd] = Partial(by \cup {p})]
    /\ procs' = [procs EXCEPT ![p].pc = "rename", ![p].fd = "closed"]
    /\ UNCHANGED <<runs, cmdVars, pureVars>>

\* save_status, line 47: tmp.rename(STATUS_FILE); FileNotFoundError when
\* nothing is named tmp
Rename(p) ==
    /\ procs[p].pc = "rename"
    /\ IF exists(disk, tmp)
       THEN /\ disk' = rename(disk, tmp, STATUS_FILE)
            /\ procs' = [q \in Procs |->
                  IF q = p THEN [procs[q] EXCEPT !.pc = "done", !.exit = 0]
                  ELSE [procs[q] EXCEPT !.fd = fdAfterRename(@, tmp, STATUS_FILE)]]
       ELSE /\ disk' = disk
            /\ procs' = [procs EXCEPT ![p].pc = "crashed", ![p].exit = 1,
                                      ![p].err = "FileNotFoundError"]
    /\ UNCHANGED <<runs, cmdVars, pureVars>>

\* the process is killed after it opened tmp and before its rename
Crash(p) ==
    /\ procs[p].pc \in {"write", "close", "rename"}
    /\ procs' = [procs EXCEPT ![p].pc = "crashed", ![p].fd = "closed",
                              ![p].err = "killed"]
    /\ UNCHANGED <<disk, runs, cmdVars, pureVars>>

\* one process runs one command after the other and can be killed
Writer == "p1"

NextCrash ==
    \/ \E source \in ProcSources : RunCreate(Writer, source)
    \/ RunNext(Writer)
    \/ \E t \in ProcIds, d \in ProcIds : RunDepends(Writer, t, d)
    \/ \E t \in ProcIds, s \in ProcStatuses : RunUpdate(Writer, t, s)
    \/ Open(Writer)
    \/ WriteChunk(Writer)
    \/ Close(Writer)
    \/ Rename(Writer)
    \/ Crash(Writer)

SpecCrash == Init /\ [][NextCrash]_vars

\* the processes run their commands at the same time, in any interleaving
NextRace ==
    \E p \in Procs :
        \/ \E source \in ProcSources : RunCreate(p, source)
        \/ RunNext(p)
        \/ \E t \in ProcIds, d \in ProcIds : RunDepends(p, t, d)
        \/ \E t \in ProcIds, s \in ProcStatuses : RunUpdate(p, t, s)
        \/ Open(p)
        \/ WriteChunk(p)
        \/ Close(p)
        \/ Rename(p)

SpecRace == Init /\ [][NextRace]_vars

\* ================================================================ claims
Tracked(file) == DOMAIN file.data.tickets
TicketsOf(file) == file.data.tickets

\* the tracked identifiers x is blocked by: the edges of the tracked graph
Succ(tickets, x) == {y \in DOMAIN tickets : y \in Range(tickets[x].blocked_by)}

RECURSIVE ReachFrom(_, _, _)
ReachFrom(tickets, S, n) ==
    IF n = 0 THEN S
    ELSE LET S2 == S \cup UNION {Succ(tickets, x) : x \in S}
         IN  IF S2 = S THEN S ELSE ReachFrom(tickets, S2, n - 1)

\* x depends on y through a chain of one or more tracked blocked_by edges
DependsOn(tickets, x, y) ==
    y \in ReachFrom(tickets, Succ(tickets, x), Cardinality(DOMAIN tickets))

HasCycle(tickets) == \E t \in DOMAIN tickets : DependsOn(tickets, t, t)

\* the candidate set of section 4.6, in the spec's words
Eligible(file) ==
    {t \in Tracked(file) :
        /\ TicketsOf(file)[t].status = "pending"
        /\ \A i \in DOMAIN TicketsOf(file)[t].blocked_by :
              LET d == TicketsOf(file)[t].blocked_by[i]
              IN  d \in Tracked(file) /\ TicketsOf(file)[d].status = "done"}

\* C1: in every persisted snapshot the blocked_by graph restricted to the
\* tracked tickets has no cycle.
C1_TrackedGraphAcyclic ==
    status_file.exists => ~HasCycle(TicketsOf(status_file))

\* the edges a batch of new identifiers adds to those already tracked
BatchIds(tickets) == {tickets[i].id : i \in DOMAIN tickets}
WithBatch(old, tickets) ==
    [t \in (DOMAIN old) \cup BatchIds(tickets) |->
        IF t \in DOMAIN old THEN [blocked_by |-> old[t].blocked_by]
        ELSE [blocked_by |->
                tickets[CHOOSE i \in DOMAIN tickets : tickets[i].id = t].blocked_by]]

\* C2: a create whose batch (of identifiers not tracked yet) closes a cycle
\* together with the edges of the tickets tracked from earlier batches
\* exits with 2 and persists nothing.
C2_CreateRejectsCrossBatchCycle ==
    [][last'.cmd = "create" =>
        \A source \in Sources :
            ( /\ Create(source)
              /\ source.is_file
              /\ BatchIds(source.tickets) \cap Tracked(status_file) = {}
              /\ HasCycle(WithBatch(TicketsOf(status_file), source.tickets)) )
            => (last'.exit = 2 /\ status_file' = status_file)]_vars

\* C3: depends(t, d) for tracked t # d where d already depends on t exits
\* with 2 and leaves t's blocked_by and d's blocks as they were.
C3_DependsRejectsCycle ==
    [][last'.cmd = "depends" =>
        \A t \in Tracked(status_file), d \in Tracked(status_file) :
            ( /\ Depends(t, d)
              /\ t # d
              /\ DependsOn(TicketsOf(status_file), d, t) )
            => /\ last'.exit = 2
               /\ TicketsOf(status_file')[t].blocked_by = TicketsOf(status_file)[t].blocked_by
               /\ TicketsOf(status_file')[d].blocks = TicketsOf(status_file)[d].blocks]_vars

\* C4: a create, depends or update that returns a non-zero exit code
\* leaves the persisted document exactly as it was (absent stays absent).
C4_AllOrNothing ==
    [][(last'.cmd \in {"create", "depends", "update"} /\ last'.exit # 0)
        => status_file' = status_file]_vars

\* a create has failed on a document that already tracks tickets
C4_Witness ==
    /\ last.cmd = "create"
    /\ last.exit = 2
    /\ status_file.exists
    /\ Tracked(status_file) # {}

\* C5: a successful create leaves status, summary, priority and blocked_by
\* of every ticket tracked before the call as they were.
C5_CreateAdditive ==
    [][(last'.cmd = "create" /\ last'.exit = 0) =>
        \A t \in Tracked(status_file) :
            /\ t \in Tracked(status_file')
            /\ TicketsOf(status_file')[t].status = TicketsOf(status_file)[t].status
            /\ TicketsOf(status_file')[t].summary = TicketsOf(status_file)[t].summary
            /\ TicketsOf(status_file')[t].priority = TicketsOf(status_file)[t].priority
            /\ TicketsOf(status_file')[t].blocked_by = TicketsOf(status_file)[t].blocked_by]_vars

\* C6: a ticket returned by next is pending and every identifier in its
\* blocked_by is a tracked ticket that is done.
C6_NextReturnsEligible ==
    (last.cmd = "next" /\ last.exit = 0) =>
        /\ last.ticket \in Tracked(status_file)
        /\ TicketsOf(status_file)[last.ticket].status = "pending"
        /\ \A d \in Range(TicketsOf(status_file)[last.ticket].blocked_by) :
              d \in Tracked(status_file) /\ TicketsOf(status_file)[d].status = "done"

\* next returned a ticket while a pending ticket waits on an untracked one
C6_Witness ==
    /\ last.cmd = "next"
    /\ last.exit = 0
    /\ \E u \in Tracked(status_file) :
          /\ TicketsOf(status_file)[u].status = "pending"
          /\ \E d \in Range(TicketsOf(status_file)[u].blocked_by) :
                d \notin Tracked(status_file)

\* the rank of a priority as section 4.6 states it
Rank(p) == CASE p = "critical" -> 0 [] p = "high" -> 1 [] p = "medium" -> 2
             [] p = "low" -> 3

\* the key of t is strictly smaller than the key of u
KeyBefore(file, t, u) ==
    LET a == TicketsOf(file)[t]
        b == TicketsOf(file)[u]
    IN  \/ Rank(a.priority) < Rank(b.priority)
        \/ Rank(a.priority) = Rank(b.priority) /\ a.phase < b.phase
        \/ /\ Rank(a.priority) = Rank(b.priority) /\ a.phase = b.phase
           /\ IdRank[t] < IdRank[u]

\* C7: no eligible ticket has a strictly smaller (priority rank, phase,
\* identifier) key than the ticket next returns.
C7_NextReturnsMinimum ==
    (last.cmd = "next" /\ last.exit = 0) =>
        /\ last.ticket \in Eligible(status_file)
        /\ \A u \in Eligible(status_file) : ~KeyBefore(status_file, u, last.ticket)

\* next preferred a ticket of a later phase for its priority, and another
\* ticket over one of the same priority and phase for its identifier
C7_Witness ==
    /\ last.cmd = "next"
    /\ last.exit = 0
    /\ \E u \in Eligible(status_file) :
          /\ TicketsOf(status_file)[u].phase < TicketsOf(status_file)[last.ticket].phase
          /\ Rank(TicketsOf(status_file)[last.ticket].priority)
                < Rank(TicketsOf(status_file)[u].priority)

\* C8: next exits with 0 exactly when the candidate set is non-empty and
\* with 1 exactly when it is empty (or nothing is tracked); a pending ticket
\* blocked by a pending one is not returned; of A (no dependencies) and B
\* (blocked by A) alone, next returns A while A is pending and B once A is
\* done.
C8_NextExitAndOrder ==
    last.cmd = "next" =>
        /\ last.exit = 0 <=> Eligible(status_file) # {}
        /\ last.exit = 1 <=> Eligible(status_file) = {}
        /\ last.exit = 1 => last.ticket = NoTicket
        /\ \A a \in Tracked(status_file), b \in Tracked(status_file) :
              LET ta == TicketsOf(status_file)[a]
                  tb == TicketsOf(status_file)[b]
              IN  ( /\ tb.status = "pending"
                    /\ a \in Range(tb.blocked_by)
                    /\ ta.status = "pending" )
                  => /\ last.ticket # b
                     /\ ( Tracked(status_file) = {a, b} /\ ta.blocked_by = << >> )
                          => last.ticket = a
        /\ \A a \in Tracked(status_file), b \in Tracked(status_file) :
              LET ta == TicketsOf(status_file)[a]
                  tb == TicketsOf(status_file)[b]
              IN  ( /\ Tracked(status_file) = {a, b}
                    /\ tb.status = "pending"
                    /\ tb.blocked_by = <<a>>
                    /\ ta.status = "done" )
                  => last.ticket = b

\* after update A done, next has returned B, which is blocked by A
C8_Witness ==
    /\ last.cmd = "next"
    /\ last.exit = 0
    /\ \E a \in Tracked(status_file) :
          /\ Tracked(status_file) = {a, last.ticket}
          /\ a # last.ticket
          /\ TicketsOf(status_file)[a].status = "done"
          /\ TicketsOf(status_file)[last.ticket].blocked_by = <<a>>

\* C9: next leaves the persisted document as it is and does not create it.
C9_NextIsPure ==
    [][last'.cmd = "next" => status_file' = status_file]_vars

\* next has run with no document, and none exists afterwards
C9_Witness ==
    /\ last.cmd = "next"
    /\ ~status_file.exists

\* C10: after a successful create or depends the dependency_graph has
\* exactly the tracked identifiers as keys, each with its blocked_by list.
C10_GraphMirrorsTickets ==
    (last.cmd \in {"create", "depends"} /\ last.exit = 0 /\ status_file.exists) =>
        /\ Keys(status_file.data.dependency_graph) = Tracked(status_file)
        /\ \A t \in Tracked(status_file) :
              Get(status_file.data.dependency_graph, t)
                  = TicketsOf(status_file)[t].blocked_by

\* C11: in every persisted snapshot blocks is the inverse of blocked_by
\* over the tracked tickets.
C11_BlocksInverse ==
    status_file.exists =>
        \A x \in Tracked(status_file), y \in Tracked(status_file) :
            x \in Range(TicketsOf(status_file)[y].blocks)
                <=> y \in Range(TicketsOf(status_file)[x].blocked_by)

MaxOf(S) == CHOOSE m \in S : \A x \in S : x <= m

\* C12: after a successful create or depends every tracked ticket's depth
\* is 0 if none of its blocked_by entries is tracked, and otherwise 1 + the
\* largest depth among its tracked blocked_by entries.
C12_DepthOverTrackedSet ==
    (last.cmd \in {"create", "depends"} /\ last.exit = 0 /\ status_file.exists) =>
        \A t \in Tracked(status_file) :
            LET deps == Succ(TicketsOf(status_file), t)
            IN  TicketsOf(status_file)[t].depth =
                    IF deps = {} THEN 0
                    ELSE 1 + MaxOf({TicketsOf(status_file)[d].depth : d \in deps})

\* C13: in every persisted snapshot each tracked ticket is in exactly one
\* phase list, the one keyed str(phase), and no list holds an untracked
\* identifier.
C13_PhasesPartition ==
    status_file.exists =>
        LET phases == status_file.data.phases
        IN  /\ \A t \in Tracked(status_file) :
                  /\ Cardinality({i \in DOMAIN phases : t \in Range(phases[i].ids)}) = 1
                  /\ \A i \in DOMAIN phases :
                        t \in Range(phases[i].ids)
                            => /\ phases[i].key = Str(TicketsOf(status_file)[t].phase)
                               /\ Cardinality({j \in DOMAIN phases[i].ids :
                                                 phases[i].ids[j] = t}) = 1
            /\ \A i \in DOMAIN phases : Range(phases[i].ids) \subseteq Tracked(status_file)

\* C14: in every persisted snapshot every tracked ticket has depth >= 0 and
\* phase = depth + 1.
C14_PhaseIsDepthPlusOne ==
    status_file.exists =>
        \A t \in Tracked(status_file) :
            /\ TicketsOf(status_file)[t].depth >= 0
            /\ TicketsOf(status_file)[t].phase = TicketsOf(status_file)[t].depth + 1

\* a depends has pushed a ticket to depth 1 or deeper, and a status has
\* been updated since
C14_Witness ==
    /\ status_file.exists
    /\ last.cmd = "update"
    /\ last.exit = 0
    /\ \E t \in Tracked(status_file) :
          /\ TicketsOf(status_file)[t].depth >= 1
          /\ Len(TicketsOf(status_file)[t].blocked_by) >= 2

\* the original wording of C15: whenever d is in t's blocked_by, depends(t, d)
\* exits with 0 and leaves the persisted snapshot unchanged.
C15_DependsIdempotentAnyEntry ==
    [][last'.cmd = "depends" =>
        \A t \in Tracked(status_file), d \in Ids :
            (/\ d \in Range(TicketsOf(status_file)[t].blocked_by)
             /\ Depends(t, d))
                => /\ last'.exit = 0
                   /\ status_file' = status_file]_vars

\* C15: when t and d are both tracked and d is already in t's blocked_by,
\* depends(t, d) exits with 0 and leaves the persisted snapshot unchanged;
\* and repeating a depends(t, d) that exited with 0 exits with 0 again and
\* leaves the snapshot of the first application.
C15_DependsIdempotent ==
    [][last'.cmd = "depends" =>
        \A t \in Tracked(status_file), d \in Tracked(status_file) :
            /\ (/\ d \in Range(TicketsOf(status_file)[t].blocked_by)
                /\ Depends(t, d))
                   => /\ last'.exit = 0
                      /\ status_file' = status_file
            /\ (Depends(t, d) /\ last'.exit = 0)
                   => cmd_depends(status_file', t, d)
                          = [exit |-> 0, file |-> status_file']]_vars

\* a depends that found its edge already there: it exited with 0 right
\* after the one create that recorded the edge between two tracked tickets
C15_Witness ==
    /\ last.cmd = "depends"
    /\ last.exit = 0
    /\ used = [create |-> 1, cmds |-> 1]
    /\ \E t \in Tracked(status_file), d \in Tracked(status_file) :
          d \in Range(TicketsOf(status_file)[t].blocked_by)

\* C16: depends(t, d) exits with 2 whenever t or d is not tracked or
\* t = d, and exits with 0 only when both are tracked, t # d, and afterwards
\* d is in t's blocked_by and t is in d's blocks.
C16_DependsExitCodes ==
    [][last'.cmd = "depends" =>
        \A t \in Ids, d \in Ids :
            Depends(t, d) =>
                /\ (t \notin Tracked(status_file) \/ d \notin Tracked(status_file) \/ t = d)
                       => last'.exit = 2
                /\ last'.exit = 0
                       => /\ t \in Tracked(status_file)
                          /\ d \in Tracked(status_file)
                          /\ t # d
                          /\ d \in Range(TicketsOf(status_file')[t].blocked_by)
                          /\ t \in Range(TicketsOf(status_file')[d].blocks)]_vars

\* C17: for every tracked ticket and every status s' of VALID_STATUSES,
\* whatever the current status, update(ticket, s') exits with 0 and the
\* persisted status of the ticket is s' afterwards.
C17_UpdateNoTransitionCheck ==
    [][last'.cmd = "update" =>
        \A t \in Tracked(status_file), s \in VALID_STATUSES :
            Update(t, s)
                => /\ last'.exit = 0
                   /\ status_file'.exists
                   /\ TicketsOf(status_file')[t].status = s]_vars

\* a ticket that is pending again after two updates: it was moved away
\* from pending and then back
C17_Witness ==
    /\ last.cmd = "update"
    /\ last.exit = 0
    /\ used = [create |-> 1, cmds |-> 3]
    /\ \A t \in Tracked(status_file) : TicketsOf(status_file)[t].status = "pending"

\* C18: update exits with 2 when the status is not in VALID_STATUSES, when
\* there is no persisted document, or when the ticket is not tracked, and
\* then the persisted document is what it was (missing stays missing).
C18_UpdateRejects ==
    [][last'.cmd = "update" =>
        \A t \in Ids, s \in InputStatuses :
            (/\ Update(t, s)
             /\ \/ s \notin VALID_STATUSES
                \/ ~status_file.exists
                \/ t \notin Tracked(status_file))
                => /\ last'.exit = 2
                   /\ status_file' = status_file]_vars

\* an update was refused on an existing document whose tickets are not all
\* pending any more
C18_Witness ==
    /\ last.cmd = "update"
    /\ last.exit = 2
    /\ status_file.exists
    /\ \E t \in Tracked(status_file) : TicketsOf(status_file)[t].status = "done"

\* C19: while a process is between the opening of tmp and the end of its
\* rename, and after it was killed there, the canonical document is exactly
\* what the process loaded, and it is absent or one whole text.
C19_CrashKeepsPrevious ==
    \A p \in Procs :
        (\/ procs[p].pc \in {"write", "close", "rename"}
         \/ procs[p].pc = "crashed" /\ procs[p].err = "killed")
            => /\ disk[STATUS_FILE] = procs[p].prev
               /\ disk[STATUS_FILE].kind \in {"absent", "whole"}

\* the writer was killed in the middle of its write: tmp holds part of a
\* text and the canonical document is the whole text saved before
C19_Witness ==
    /\ procs[Writer].pc = "crashed"
    /\ procs[Writer].err = "killed"
    /\ disk[tmp].kind = "partial"
    /\ disk[STATUS_FILE].kind = "whole"
    /\ procs[Writer].data # disk[STATUS_FILE].data

\* C20: under any interleaving the canonical file is absent or holds one
\* whole snapshot written by a single save, and no process fails to parse
\* the document it reads.
C20_ReaderNeverSeesPartial ==
    /\ disk[STATUS_FILE].kind \in {"absent", "whole"}
    /\ Cardinality(disk[STATUS_FILE].by) <= 1
    /\ \A p \in Procs : procs[p].err # "JSONDecodeError"

\* C21: when two processes loaded the same snapshot and both save, the
\* rename of the second one succeeds too, and the canonical document is
\* then exactly the whole snapshot that process built.
C21_LastWriterWins ==
    [][\A p \in Procs, q \in Procs :
          (/\ p # q
           /\ procs[q].pc = "done"
           /\ procs[q].data # EmptyData
           /\ procs[p].prev = procs[q].prev
           /\ Rename(p))
              => /\ procs'[p].pc = "done"
                 /\ disk'[STATUS_FILE].kind = "whole"
                 /\ disk'[STATUS_FILE].data = procs[p].data]_vars

\* the dependencies of x that are keys of the mapping
GSucc(graph, x) == Range(Get(graph, x)) \cap Keys(graph)

RECURSIVE GReach(_, _, _)
GReach(graph, S, n) ==
    IF n = 0 THEN S
    ELSE LET S2 == S \cup UNION {GSucc(graph, x) : x \in S}
         IN  IF S2 = S THEN S ELSE GReach(graph, S2, n - 1)

\* the mapping restricted to its keys has no cycle
Acyclic(graph) ==
    \A x \in Keys(graph) :
        x \notin GReach(graph, GSucc(graph, x), Cardinality(Keys(graph)))

RECURSIVE Chain(_, _)
\* the length of the longest chain of key dependencies from n
Chain(graph, n) ==
    IF GSucc(graph, n) = {} THEN 0
    ELSE 1 + MaxOf({Chain(graph, d) : d \in GSucc(graph, n)})

\* C22: detect_cycle returns None exactly when the mapping restricted to
\* its keys is acyclic; otherwise it returns a sequence whose first and last
\* elements are equal and in which each element has the next one among its
\* dependencies in the mapping.
C22_DetectCycleCorrect ==
    result.fn = "detect_cycle" =>
        LET cycle == result.value
        IN  /\ cycle = None <=> Acyclic(mapping)
            /\ cycle # None =>
                  /\ Len(cycle) >= 2
                  /\ cycle[1] = cycle[Len(cycle)]
                  /\ \A i \in 1..(Len(cycle) - 1) :
                        /\ cycle[i] \in Keys(mapping)
                        /\ cycle[i + 1] \in Range(Get(mapping, cycle[i]))

\* a cycle of two nodes was found in a component the first key is not
\* part of, in a mapping of three keys
C22_Witness ==
    /\ result.fn = "detect_cycle"
    /\ Len(mapping) = 3
    /\ Len(result.value) = 3
    /\ mapping[1].id \notin Range(result.value)
    /\ mapping[1].deps = << >>

\* the mapping without the dependencies that are not keys
StripNonKeys(graph) ==
    [i \in DOMAIN graph |->
        [id |-> graph[i].id,
         deps |-> SelectSeq(graph[i].deps, LAMBDA d : d \in Keys(graph))]]

\* C23: on an acyclic mapping compute_depth returns a value for exactly the
\* keys, 0 for a node with no dependency that is a key and 1 + the largest
\* depth of its key dependencies otherwise, which is the length of the
\* longest chain of key dependencies; dependencies that are not keys do not
\* change the result.
C23_ComputeDepthCorrect ==
    (result.fn = "compute_depth" /\ Acyclic(mapping)) =>
        LET depth == result.value
        IN  /\ depth # RecursionError
            /\ DOMAIN depth = Keys(mapping)
            /\ \A n \in Keys(mapping) :
                  /\ depth[n] = IF GSucc(mapping, n) = {} THEN 0
                                ELSE 1 + MaxOf({depth[d] : d \in GSucc(mapping, n)})
                  /\ depth[n] = Chain(mapping, n)
            /\ compute_depth(StripNonKeys(mapping)) = depth

\* a node of depth 2 over two paths of different lengths, its deeper
\* dependency listed first
C23_Witness ==
    /\ result.fn = "compute_depth"
    /\ Acyclic(mapping)
    /\ \E n \in Keys(mapping) :
          /\ result.value[n] = 2
          /\ Len(Get(mapping, n)) = 2
          /\ result.value[Get(mapping, n)[1]] = 1
          /\ result.value[Get(mapping, n)[2]] = 0

\* the number a phase key is the str of
Num(key) == CHOOSE k \in 1..(Cardinality(Ids) + 1) : Str(k) = key

\* C24: on an acyclic mapping the lists of compute_phases partition the
\* keys, node n is in the list keyed str(depth(n) + 1), every list is
\* sorted by identifier, and the keys come in ascending numeric order.
C24_ComputePhasesCorrect ==
    (result.fn = "compute_phases" /\ Acyclic(mapping)) =>
        LET phases == result.value
        IN  /\ phases # PhasesRecursionError
            /\ \A n \in Keys(mapping) :
                  /\ Cardinality({i \in DOMAIN phases : n \in Range(phases[i].ids)}) = 1
                  /\ \A i \in DOMAIN phases :
                        n \in Range(phases[i].ids)
                            => phases[i].key = Str(Chain(mapping, n) + 1)
            /\ \A i \in DOMAIN phases :
                  /\ Range(phases[i].ids) \subseteq Keys(mapping)
                  /\ phases[i].ids # << >>
                  /\ \A j, k \in DOMAIN phases[i].ids :
                        j < k => IdRank[phases[i].ids[j]] < IdRank[phases[i].ids[k]]
            /\ \A i, j \in DOMAIN phases :
                  i < j => Num(phases[i].key) < Num(phases[j].key)

\* two phases, the second with two nodes, from a mapping whose keys were
\* inserted in descending order
C24_Witness ==
    /\ result.fn = "compute_phases"
    /\ Acyclic(mapping)
    /\ Len(mapping) = 3
    /\ mapping[1].id = "C" /\ mapping[2].id = "B"
    /\ Len(result.value) = 2
    /\ Len(result.value[2].ids) = 2

\* C25: create and depends call compute_depth and compute_phases only on
\* a mapping for which detect_cycle returned None, so no create or depends
\* ends in the RecursionError of a recursion without end (exit status 1),
\* and what they persist are the depths of an acyclic mapping.
C25_DepthOnlyAfterCycleCheck ==
    last.cmd \in {"create", "depends"} =>
        /\ last.exit \in {0, 2}
        /\ (last.exit = 0 /\ status_file.exists) =>
              /\ detect_cycle(status_file.data.dependency_graph) = None
              /\ compute_depth(status_file.data.dependency_graph) # RecursionError
              /\ status_file.data.phases # PhasesRecursionError

\* a depends has closed a diamond: A is blocked by B and C, both blocked
\* by D, and A is at depth 2
C25_Witness ==
    /\ last.cmd = "depends"
    /\ last.exit = 0
    /\ status_file.exists
    /\ Keys(status_file.data.dependency_graph) = DiamondIds
    /\ Range(Get(status_file.data.dependency_graph, "A")) = {"B", "C"}
    /\ Get(status_file.data.dependency_graph, "B") = <<"D">>
    /\ Get(status_file.data.dependency_graph, "C") = <<"D">>
    /\ Get(status_file.data.dependency_graph, "D") = << >>
    /\ TicketsOf(status_file)["A"].depth = 2

\* C26: in every persisted snapshot the dependency_graph mapping,
\* restricted to its own keys, is acyclic.
C26_PersistedGraphAcyclic ==
    status_file.exists => Acyclic(status_file.data.dependency_graph)

\* a depends added an edge between two keys of a persisted graph that
\* does not cover every tracked ticket
C26_Witness ==
    /\ last.cmd = "depends"
    /\ last.exit = 0
    /\ used.cmds = 3
    /\ Keys(status_file.data.dependency_graph) # Tracked(status_file)
    /\ \E x \in Keys(status_file.data.dependency_graph) :
          GSucc(status_file.data.dependency_graph, x) # {}

\* C28: an update(t, s) that exits with 0 changes only the status of t:
\* the tracked set, every other record, the other fields of t, and the
\* dependency_graph and phases mappings are what they were.
C28_UpdateChangesOnlyStatus ==
    [][last'.cmd = "update" =>
        \A t \in Ids, s \in InputStatuses :
            (Update(t, s) /\ last'.exit = 0)
                => /\ Tracked(status_file') = Tracked(status_file)
                   /\ \A u \in Tracked(status_file) \ {t} :
                         TicketsOf(status_file')[u] = TicketsOf(status_file)[u]
                   /\ \A f \in {"summary", "priority", "phase", "depth",
                                "blocked_by", "blocks"} :
                         TicketsOf(status_file')[t][f] = TicketsOf(status_file)[t][f]
                   /\ status_file'.data.dependency_graph
                         = status_file.data.dependency_graph
                   /\ status_file'.data.phases = status_file.data.phases]_vars

\* a ticket that blocks another one was set to done
C28_Witness ==
    /\ last.cmd = "update"
    /\ last.exit = 0
    /\ \E t \in Tracked(status_file), u \in Tracked(status_file) :
          /\ TicketsOf(status_file)[t].status = "done"
          /\ t \in Range(TicketsOf(status_file)[u].blocked_by)
          /\ u \in Range(TicketsOf(status_file)[t].blocks)
          /\ TicketsOf(status_file)[u].depth = 1

\* C27: in the driver loop, started from a snapshot built by create and
\* depends in which every ticket is pending and every blocked_by identifier
\* is tracked, next reports that no ticket is available only when no
\* ticket is pending (so the loop ends with every ticket done).
C27_DriverNeverStuck ==
    (last.cmd = "next" /\ last.exit = 1 /\ status_file.exists) =>
        \A t \in Tracked(status_file) : TicketsOf(status_file)[t].status = "done"

====
